---------------------------- MODULE Spec2Model ----------------------------
(***************************************************************************)
(* A model of the trial-orchestration core of keras-tuner:                 *)
(*                                                                         *)
(*   HyperTuner.get_random_instance,     kerastuner/engine/hypertuner.py   *)
(*     __init__ and record_results                                         *)
(*   Instance.fit / __new_execution      kerastuner/engine/instance.py     *)
(*     and record_results                                                  *)
(*   Oracle.update_space and             kerastuner/engine/oracle.py       *)
(*     _raise_if_unknown_hyperparameter                                    *)
(*   the Oracle's trial registry         (from its documented behaviour)   *)
(*   Tuner.search: oversized models and  (from its documented behaviour)   *)
(*     checkpoint retention                                                *)
(*   RandomSearch.tune                   kerastuner/tuners/randomsearch.py *)
(*   MultipleExecutionsTuner             kerastuner/tuners/                *)
(*                                         multiple_executions_tuner.py    *)
(*                                                                         *)
(* Each component has its own variables, its own next-state relation and   *)
(* its own specification; the variables of the other components are left   *)
(* unchanged by it.                                                        *)
(***************************************************************************)
EXTENDS Integers, Sequences, FiniteSets, TLC

VARIABLES
    \* ---- HyperTuner (hypertuner.py) ----
    max_fail_streak,       \* self.max_fail_streak (constructor argument)
    invalid_models,        \* self.invalid_models
    collisions,            \* self.collisions
    instances,             \* self.instances: idx -> Instance
    current_instance_idx,  \* self.current_instance_idx
    fail_streak,           \* local of get_random_instance
    gri_pc,                \* position of get_random_instance: "idle" | "loop"
    gri_ret,               \* what the last get_random_instance call returned
    gri_pre,               \* instances / current_instance_idx when the call began
    gri_calls,             \* number of get_random_instance calls made
    returned,              \* the ids of the instances returned so far, in order
    last_idx,              \* local `idx': the id computed last
    failures_since_build,  \* model_fn failures since it last returned a model
    \* ---- Instance (instance.py) ----
    executions,            \* self.executions
    fit_calls,             \* number of Instance.fit calls made
    last_fit,              \* the arguments of the last Instance.fit call
    \* ---- Oracle (oracle.py) ----
    space,                 \* self.space: the tracked hyperparameters, in order
    update_calls,          \* number of update_space calls made
    queried,               \* the hyperparameters of the last query
    query_outcome,         \* "none" | "ok" | "ValueError": how it ended
    \* ---- RandomSearch (randomsearch.py) ----
    remaining_budget,      \* self.state.remaining_budget
    num_executions,        \* self.state.num_executions
    max_epochs,            \* self.state.max_epochs
    fit_epochs,            \* the `epochs' training option in tune's **kwargs
    tune_pc,               \* position of tune: "loop" (at the while) | "done"
    trials,                \* the executions of each instance new_instance gave
    \* ---- MultipleExecutionsTuner (multiple_executions_tuner.py) ----
    met_state,             \* "unbuilt" | "ready" | "ValueError" (constructor)
    met_objective,         \* kind of oracle.objective at construction
    executions_per_trial,  \* self.executions_per_trial
    reported_step,         \* self._reported_step
    trial_status,          \* per trial: "pending" | "completed" | the error raised
    builds,                \* per trial: models built by run_trial
    trainings,             \* per trial: model.fit calls made by run_trial
    histories,             \* per trial: the history.history of each model.fit
    oracle_updates,        \* per trial: the oracle.update_trial calls received
    epoch_end_calls,       \* number of on_epoch_end calls made
    \* ---- HyperTuner metrics registry (hypertuner.py) ----
    key_metrics,           \* self.key_metrics: (name, direction) in order
    stats,                 \* self.stats: metric name -> best value so far
    rr_raised,             \* whether the last record_results call raised
    rr_observed,           \* per key metric: the best of the values recorded
    init_raised,           \* whether HyperTuner.__init__ raised
    \* ---- Instance.record_results (instance.py) ----
    inst_key_metrics,      \* self.key_metrics of the instance
    inst_executions,       \* self.executions, each with its metrics
    inst_results,          \* self.results["key_metrics"]
    ir_calls,              \* number of Instance.record_results calls made
    ir_written,            \* local artifacts the last call wrote
    ir_raised,             \* whether the last call raised
    ir_args,               \* the arguments and mirror outcome of the last call
    \* ---- the Oracle's trial registry ----
    objective_direction,   \* direction of the oracle's objective
    oracle_trials,         \* the trials in creation order
    \* ---- Tuner.search ----
    tu_pc,                 \* position in the search loop
    tu_direction,          \* direction of the monitored objective
    tu_max_oversized,      \* bound on consecutive oversized models
    tu_trials_left,        \* trials the oracle still hands out
    tu_trial,              \* the current trial (0: none yet)
    tu_streak,             \* consecutive oversized models so far
    tu_last_build,         \* outcome of the last model build
    tu_trained,            \* trials that went into training
    tu_history,            \* monitored value of each epoch of the trial
    tu_best,               \* best monitored value of the trial so far
    tu_files               \* names of the checkpoints that exist

htVars == << max_fail_streak, invalid_models, collisions, instances,
             current_instance_idx, fail_streak, gri_pc, gri_ret, gri_pre,
             gri_calls, returned, last_idx, failures_since_build >>

instVars == << executions, fit_calls, last_fit >>

orVars == << space, update_calls, queried, query_outcome >>

rsVars == << remaining_budget, num_executions, max_epochs, fit_epochs,
             tune_pc, trials >>

metVars == << met_state, met_objective, executions_per_trial, reported_step,
              trial_status, builds, trainings, histories, oracle_updates,
              epoch_end_calls >>

rrVars == << key_metrics, stats, rr_raised, rr_observed, init_raised >>

irVars == << inst_key_metrics, inst_executions, inst_results, ir_calls,
            ir_written, ir_raised, ir_args >>

trVars == << objective_direction, oracle_trials >>

tuVars == << tu_pc, tu_direction, tu_max_oversized, tu_trials_left, tu_trial,
             tu_streak, tu_last_build, tu_trained, tu_history, tu_best,
             tu_files >>

vars == << htVars, instVars, orVars, rsVars, metVars, rrVars, irVars,
           trVars, tuVars >>

-----------------------------------------------------------------------------
(* Bounds of the model *)

\* largest max_fail_streak a HyperTuner is constructed with
MaxFailStreakArg == 3
\* loop iterations explored inside one get_random_instance call
MaxAttempts == 4
\* get_random_instance calls explored
MaxCalls == 2
\* number of distinct model configurations model_fn can produce
NumConfigs == 3
\* number of distinct digests (several configurations may share a digest)
NumDigests == 2
\* number of key orders in which one configuration dict can be laid out
NumLayouts == 2
\* Instance.fit calls explored
MaxFitCalls == 4
\* largest `epochs' training option passed to Instance.fit
MaxEpochs == 3
\* number of distinct hyperparameter names
NumNames == 2
\* longest list of new entries passed to update_space
MaxEntries == 2
\* update_space calls explored
MaxUpdateCalls == 2
\* largest epoch budget a RandomSearch starts with
MaxBudget == 4
\* largest num_executions of a RandomSearch
MaxNumExecutions == 2
\* largest max_epochs of a RandomSearch
MaxMaxEpochs == 2
\* instances explored in one tune
MaxTrials == 3
\* largest executions_per_trial a MultipleExecutionsTuner is built with
MaxExecutionsPerTrial == 3
\* number of trials handed to run_trial
NumTrials == 3
\* on_epoch_end calls explored
MaxEpochEndCalls == 4
\* longest `metrics' list a HyperTuner is constructed with
MaxUserMetrics == 2
\* where sys.maxsize lies on the scale of metric values explored
MaxMetric == 0
\* executions of the instance whose results are recorded
MaxRecExecutions == 3
\* Instance.record_results calls explored
MaxRecordCalls == 2
\* trials the oracle creates
MaxOracleTrials == 2
\* largest objective value a training step reports
MaxScore == 2
\* steps reported for one trial
MaxSteps == 3
\* largest bound on consecutive oversized models a search is given
MaxOversizedBound == 1
\* trials a search is given
MaxSearchTrials == 2
\* epochs a trial is trained for
MaxTrainEpochs == 3

-----------------------------------------------------------------------------
(* HyperTuner *)

\* None, as a value of current_instance_idx's initial -1 and of a return
NoIdx == -1

\* the configurations model_fn may produce: the values of model.get_config()
\* up to equality of dicts
Configs == 0 .. (NumConfigs - 1)

\* the models model_fn may return: a configuration, and the order in which
\* the dict returned by get_config() lists its keys (equal dicts need not
\* list their keys in the same order)
Models == [config : Configs, layout : 1 .. NumLayouts]

\* str(model.get_config()): the text of the dict, its keys in the order the
\* dict lists them; models that differ in configuration or in key order
\* have different texts
ConfigText(model) == ((model.layout - 1) * NumConfigs) + model.config

\* __compute_model_id: xxh64(str(model.get_config())).hexdigest(), a
\* fixed-width digest of the text, not injective
ComputeModelId(model) == ConfigText(model) % NumDigests

\* Instance(model, idx, ...): a new instance with no execution yet
NewInstance(model, idx) ==
    [model |-> model, idx |-> idx, executions |-> << >>]

\* faulty variant: the membership test is dropped, the loop always breaks
NotRegistered_AlwaysBreak(idx) == TRUE

\* `idx not in self.instances'
NotRegistered(idx) == idx \notin DOMAIN instances

\* self.instances[idx] = inst
Register(idx, inst) ==
    [j \in (DOMAIN instances) \cup {idx} |->
        IF j = idx THEN inst ELSE instances[j]]

\* HyperTuner.__init__
HTInit ==
    /\ max_fail_streak \in 1 .. MaxFailStreakArg
    /\ invalid_models = 0
    /\ collisions = 0
    /\ instances = << >>
    /\ current_instance_idx = NoIdx
    /\ fail_streak = 0
    /\ gri_pc = "idle"
    /\ gri_ret = NoIdx
    /\ gri_pre = [instances |-> << >>, current_instance_idx |-> NoIdx]
    /\ gri_calls = 0
    /\ returned = << >>
    /\ last_idx = NoIdx
    /\ failures_since_build = 0

\* get_random_instance is called: fail_streak = 0, then the while loop
GetRandomInstance ==
    /\ gri_pc = "idle"
    /\ gri_calls < MaxCalls
    /\ gri_pc' = "loop"
    /\ fail_streak' = 0
    /\ gri_calls' = gri_calls + 1
    /\ gri_pre' = [instances |-> instances,
                   current_instance_idx |-> current_instance_idx]
    /\ UNCHANGED << max_fail_streak, invalid_models, collisions, instances,
                    current_instance_idx, gri_ret, returned, last_idx,
                    failures_since_build >>
    /\ UNCHANGED << instVars, orVars, rsVars, metVars,
                    rrVars, irVars, trVars, tuVars >>

\* faulty variant: the limit is compared with > instead of >=
ModelFnRaises_OffByOne ==
    /\ gri_pc = "loop"
    /\ fail_streak < MaxAttempts
    /\ fail_streak' = fail_streak + 1
    /\ invalid_models' = invalid_models + 1
    /\ IF invalid_models' > max_fail_streak
         THEN /\ gri_pc' = "idle"
              /\ gri_ret' = NoIdx
         ELSE /\ gri_pc' = "loop"
              /\ UNCHANGED gri_ret
    /\ failures_since_build' = failures_since_build + 1
    /\ UNCHANGED << max_fail_streak, collisions, instances,
                    current_instance_idx, gri_pre, gri_calls, returned,
                    last_idx >>
    /\ UNCHANGED << instVars, orVars, rsVars, metVars,
                    rrVars, irVars, trVars, tuVars >>

\* one iteration of the loop in which model_fn() raises
ModelFnRaises ==
    /\ gri_pc = "loop"
    /\ fail_streak < MaxAttempts
    /\ fail_streak' = fail_streak + 1
    /\ invalid_models' = invalid_models + 1
    /\ IF invalid_models' >= max_fail_streak
         THEN /\ gri_pc' = "idle"          \* return None
              /\ gri_ret' = NoIdx
         ELSE /\ gri_pc' = "loop"          \* continue
              /\ UNCHANGED gri_ret
    /\ failures_since_build' = failures_since_build + 1
    /\ UNCHANGED << max_fail_streak, collisions, instances,
                    current_instance_idx, gri_pre, gri_calls, returned,
                    last_idx >>
    /\ UNCHANGED << instVars, orVars, rsVars, metVars,
                    rrVars, irVars, trVars, tuVars >>

\* faulty variant: a collision is resampled without being counted
ModelFnReturns_UncountedCollision(model) ==
    LET idx == ComputeModelId(model) IN
    /\ gri_pc = "loop"
    /\ fail_streak < MaxAttempts
    /\ fail_streak' = fail_streak + 1
    /\ IF NotRegistered(idx)
         THEN \* break; register the instance and return it
              /\ instances' = Register(idx, NewInstance(model, idx))
              /\ current_instance_idx' = idx
              /\ gri_ret' = idx
              /\ returned' = Append(returned, idx)
              /\ gri_pc' = "idle"
              /\ UNCHANGED collisions
         ELSE /\ UNCHANGED collisions
              /\ gri_pc' = "loop"
              /\ UNCHANGED << instances, current_instance_idx, gri_ret,
                              returned >>
    /\ last_idx' = idx
    /\ failures_since_build' = 0
    /\ UNCHANGED << max_fail_streak, invalid_models, gri_pre, gri_calls >>
    /\ UNCHANGED << instVars, orVars, rsVars, metVars,
                    rrVars, irVars, trVars, tuVars >>

\* one iteration of the loop in which model_fn() returns `model'
ModelFnReturns(model) ==
    LET idx == ComputeModelId(model) IN
    /\ gri_pc = "loop"
    /\ fail_streak < MaxAttempts
    /\ fail_streak' = fail_streak + 1
    /\ IF NotRegistered(idx)
         THEN \* break; register the instance and return it
              /\ instances' = Register(idx, NewInstance(model, idx))
              /\ current_instance_idx' = idx
              /\ gri_ret' = idx
              /\ returned' = Append(returned, idx)
              /\ gri_pc' = "idle"
              /\ UNCHANGED collisions
         ELSE \* a collision: count it and sample again
              /\ collisions' = collisions + 1
              /\ gri_pc' = "loop"
              /\ UNCHANGED << instances, current_instance_idx, gri_ret,
                              returned >>
    /\ last_idx' = idx
    /\ failures_since_build' = 0
    /\ UNCHANGED << max_fail_streak, invalid_models, gri_pre, gri_calls >>
    /\ UNCHANGED << instVars, orVars, rsVars, metVars,
                    rrVars, irVars, trVars, tuVars >>

\* a HyperTuner nothing is done with
HTOff ==
    /\ max_fail_streak = 1
    /\ invalid_models = 0
    /\ collisions = 0
    /\ instances = << >>
    /\ current_instance_idx = NoIdx
    /\ fail_streak = 0
    /\ gri_pc = "idle"
    /\ gri_ret = NoIdx
    /\ gri_pre = [instances |-> << >>, current_instance_idx |-> NoIdx]
    /\ gri_calls = 0
    /\ returned = << >>
    /\ last_idx = NoIdx
    /\ failures_since_build = 0

HTNext ==
    \/ GetRandomInstance
    \/ ModelFnRaises
    \/ \E model \in Models : ModelFnReturns(model)

-----------------------------------------------------------------------------
(* Instance *)

\* InstanceExecution(...): a new execution, nothing trained yet;
\* display_info is set for the first execution of the instance only
NewExecutionRecord(n_executions) ==
    [num_epochs |-> 0, initial_epoch |-> 0, fits |-> 0,
     display_info |-> (n_executions = 0)]

\* Instance.__new_execution: the executions with a new one appended
NewExecution(execs) == Append(execs, NewExecutionRecord(Len(execs)))

\* InstanceExecution.fit(initial_epoch, epochs) followed by record_results:
\* trains the epochs initial_epoch .. epochs - 1 and counts on from
\* initial_epoch
ExecutionFit(execution, initial_epoch, epochs) ==
    [execution EXCEPT
        !.initial_epoch = initial_epoch,
        !.num_epochs = IF epochs > initial_epoch THEN epochs ELSE initial_epoch,
        !.fits = @ + 1]

\* faulty variant: a resumed execution is trained from epoch 0 again
InstanceFit_RestartAtZero(execs, resume_execution, epochs) ==
    IF resume_execution /\ Len(execs) > 0
      THEN [execs EXCEPT ![Len(execs)] = ExecutionFit(@, 0, epochs)]
      ELSE LET appended == NewExecution(execs) IN
           [appended EXCEPT ![Len(appended)] = ExecutionFit(@, 0, epochs)]

\* faulty variant: a new execution is created whether or not resume is asked
InstanceFit_AlwaysNew(execs, resume_execution, epochs) ==
    LET appended == NewExecution(execs) IN
    [appended EXCEPT ![Len(appended)] = ExecutionFit(@, 0, epochs)]

\* Instance.fit: the executions after fit(x, y, resume_execution, epochs=epochs)
InstanceFit(execs, resume_execution, epochs) ==
    IF resume_execution /\ Len(execs) > 0
      THEN \* execution = self.executions[-1], resumed at its num_epochs
           [execs EXCEPT ![Len(execs)] = ExecutionFit(@, @.num_epochs, epochs)]
      ELSE \* execution = self.__new_execution()
           LET appended == NewExecution(execs) IN
           [appended EXCEPT ![Len(appended)] = ExecutionFit(@, 0, epochs)]

\* Instance.__init__
InstInit ==
    /\ executions = << >>
    /\ fit_calls = 0
    /\ last_fit = [resume_execution |-> FALSE, epochs |-> 0]

\* a call of Instance.fit
Fit(resume_execution, epochs) ==
    /\ fit_calls < MaxFitCalls
    /\ fit_calls' = fit_calls + 1
    /\ executions' = InstanceFit(executions, resume_execution, epochs)
    /\ last_fit' = [resume_execution |-> resume_execution, epochs |-> epochs]
    /\ UNCHANGED << htVars, orVars, rsVars, metVars,
                    rrVars, irVars, trVars, tuVars >>

InstNext ==
    \E resume_execution \in BOOLEAN, epochs \in 0 .. MaxEpochs :
        Fit(resume_execution, epochs)

-----------------------------------------------------------------------------
(* Oracle *)

\* the hyperparameters a caller may pass: several distinct ones per name
HyperParameter == [name : 1 .. NumNames, kind : { "Range", "Choice" }]

\* the lists of at most n hyperparameters
EntryLists(n) == UNION { [1 .. k -> HyperParameter] : k \in 0 .. n }

\* {p.name for p in self.space}
RefNames(sp) == { sp[i].name : i \in 1 .. Len(sp) }

\* the rest of the loop of update_space: `seen' is the set the names are
\* tested against, computed once before the loop
RECURSIVE AppendUnseen(_, _, _)
AppendUnseen(sp, new_entries, seen) ==
    IF new_entries = << >>
      THEN sp
      ELSE LET p == Head(new_entries) IN
           AppendUnseen(IF p.name \notin seen THEN Append(sp, p) ELSE sp,
                        Tail(new_entries), seen)

\* faulty variant: every new entry is appended, tracked name or not
UpdateSpace_AppendAll(sp, new_entries) == sp \o new_entries

\* Oracle.update_space: the space after update_space(new_entries)
UpdateSpace(sp, new_entries) == AppendUnseen(sp, new_entries, RefNames(sp))

\* Oracle.__init__: an empty space
OracleInit ==
    /\ space = << >>
    /\ update_calls = 0
    /\ queried = { }
    /\ query_outcome = "none"

\* a call of update_space
CallUpdateSpace(new_entries) ==
    /\ update_calls < MaxUpdateCalls
    /\ update_calls' = update_calls + 1
    /\ space' = UpdateSpace(space, new_entries)
    /\ UNCHANGED << queried, query_outcome >>
    /\ UNCHANGED << htVars, instVars, rsVars, metVars,
                    rrVars, irVars, trVars, tuVars >>

OracleNext ==
    \E new_entries \in EntryLists(MaxEntries) : CallUpdateSpace(new_entries)

\* faulty variant: the difference is taken the other way round
RaiseIfUnknown_Reversed(sp, hyperparameters) ==
    LET names == { p.name : p \in hyperparameters }
        ref_names == RefNames(sp)
        diff == ref_names \ names
    IN  IF diff # { } THEN "ValueError" ELSE "ok"

\* Oracle._raise_if_unknown_hyperparameter(hyperparameters): how it ends
RaiseIfUnknown(sp, hyperparameters) ==
    LET names == { p.name : p \in hyperparameters }
        ref_names == RefNames(sp)
        diff == names \ ref_names
    IN  IF diff # { } THEN "ValueError" ELSE "ok"

\* an Oracle whose space one update_space call has filled
OracleFilled ==
    /\ space \in { UpdateSpace(<< >>, new_entries) :
                     new_entries \in EntryLists(MaxEntries) }
    /\ update_calls = 1
    /\ queried = { }
    /\ query_outcome = "none"

\* a call of _raise_if_unknown_hyperparameter
Query(hyperparameters) ==
    /\ queried' = hyperparameters
    /\ query_outcome' = RaiseIfUnknown(space, hyperparameters)
    /\ UNCHANGED << space, update_calls >>
    /\ UNCHANGED << htVars, instVars, rsVars, metVars,
                    rrVars, irVars, trVars, tuVars >>

QueryNext ==
    \E hyperparameters \in SUBSET HyperParameter : Query(hyperparameters)

-----------------------------------------------------------------------------
(* RandomSearch *)

\* Python truthiness of an integer: `while n', `n and ...'
Truthy(n) == n # 0

\* what a trial costs: num_executions fits of max_epochs epochs each
ConsumeBudget(budget, n_executions, epochs) == budget - n_executions * epochs

\* the for loop of tune: instance.fit(x, y, epochs, **kwargs), n times; the
\* third positional argument of Instance.fit is resume_execution
RECURSIVE FitExecutions(_, _, _, _)
FitExecutions(execs, n, epochs, kwargs_epochs) ==
    IF n = 0
      THEN execs
      ELSE FitExecutions(InstanceFit(execs, Truthy(epochs), kwargs_epochs),
                         n - 1, epochs, kwargs_epochs)

\* the state tune starts in
RSInit ==
    /\ remaining_budget \in 0 .. MaxBudget
    /\ num_executions \in 1 .. MaxNumExecutions
    /\ max_epochs \in 1 .. MaxMaxEpochs
    /\ fit_epochs \in 1 .. MaxEpochs
    /\ tune_pc = "loop"
    /\ trials = << >>

\* a RandomSearch nothing is done with
RSOff ==
    /\ remaining_budget = 0
    /\ num_executions = 1
    /\ max_epochs = 1
    /\ fit_epochs = 1
    /\ tune_pc = "done"
    /\ trials = << >>

\* `while self.state.remaining_budget'
LoopCondition(budget) == Truthy(budget)

\* one pass through the while loop of tune in which new_instance() returns
\* an instance: it is fitted num_executions times
TuneTrial ==
    /\ tune_pc = "loop"
    /\ LoopCondition(remaining_budget)
    /\ Len(trials) < MaxTrials
    /\ trials' = Append(trials,
                        FitExecutions(<< >>, num_executions, max_epochs,
                                      fit_epochs))
    /\ remaining_budget' = ConsumeBudget(remaining_budget, num_executions,
                                         max_epochs)
    /\ UNCHANGED << num_executions, max_epochs, fit_epochs, tune_pc >>
    /\ UNCHANGED << htVars, instVars, orVars, metVars,
                    rrVars, irVars, trVars, tuVars >>

\* the pass in which new_instance() returns None: break
TuneNoInstance ==
    /\ tune_pc = "loop"
    /\ LoopCondition(remaining_budget)
    /\ tune_pc' = "done"
    /\ UNCHANGED << remaining_budget, num_executions, max_epochs, fit_epochs,
                    trials >>
    /\ UNCHANGED << htVars, instVars, orVars, metVars,
                    rrVars, irVars, trVars, tuVars >>

\* the loop condition is false: tune returns
TuneBudgetSpent ==
    /\ tune_pc = "loop"
    /\ ~ LoopCondition(remaining_budget)
    /\ tune_pc' = "done"
    /\ UNCHANGED << remaining_budget, num_executions, max_epochs, fit_epochs,
                    trials >>
    /\ UNCHANGED << htVars, instVars, orVars, metVars,
                    rrVars, irVars, trVars, tuVars >>

RSNext ==
    \/ TuneTrial
    \/ TuneNoInstance
    \/ TuneBudgetSpent

-----------------------------------------------------------------------------
(* MultipleExecutionsTuner *)

\* the trials run_trial is called with
Trials == 1 .. NumTrials

\* the names the module binds: its imports and its class
ModuleNames == { "absolute_import", "division", "print_function",
                 "trial_lib", "tuner_module", "oracle_module", "hp_module",
                 "tf_utils", "collections", "random", "json", "keras",
                 "MultipleExecutionsTuner" }

\* what oracle.objective may be
ObjectiveKinds == { "Objective", "list", "tuple" }

\* faulty variant: only a list is recognised as a collection
IsCollection_ListOnly(objective) == objective = "list"

\* isinstance(oracle.objective, (list, tuple))
IsCollection(objective) == objective \in { "list", "tuple" }

\* what a call of run_trial has done when it ends; executions_per_trial is
\* an integer.  `copy.copy(fit_kwargs)' reads a name the module does not
\* bind; were it bound, `for execution in self.executions_per_trial'
\* iterates an integer.  Either statement raises before any model is built.
RunTrialOutcome(n_executions) ==
    IF "copy" \notin ModuleNames
      THEN [status |-> "NameError", builds |-> 0, trainings |-> 0,
            histories |-> << >>, updates |-> << >>]
      ELSE [status |-> "TypeError", builds |-> 0, trainings |-> 0,
            histories |-> << >>, updates |-> << >>]

\* before MultipleExecutionsTuner(...) is called
METInit ==
    /\ met_state = "unbuilt"
    /\ met_objective = "none"
    /\ executions_per_trial = 0
    /\ reported_step = 0
    /\ trial_status = [t \in Trials |-> "pending"]
    /\ builds = [t \in Trials |-> 0]
    /\ trainings = [t \in Trials |-> 0]
    /\ histories = [t \in Trials |-> << >>]
    /\ oracle_updates = [t \in Trials |-> << >>]
    /\ epoch_end_calls = 0

\* MultipleExecutionsTuner.__init__
Construct(objective, n_executions) ==
    /\ met_state = "unbuilt"
    /\ met_objective' = objective
    /\ IF IsCollection(objective)
         THEN /\ met_state' = "ValueError"
              /\ UNCHANGED << executions_per_trial, reported_step >>
         ELSE /\ met_state' = "ready"
              /\ executions_per_trial' = n_executions
              /\ reported_step' = 0
    /\ UNCHANGED << trial_status, builds, trainings, histories,
                    oracle_updates, epoch_end_calls >>
    /\ UNCHANGED << htVars, instVars, orVars, rsVars,
                    rrVars, irVars, trVars, tuVars >>

\* MultipleExecutionsTuner.on_epoch_end: pass
OnEpochEnd ==
    /\ met_state = "ready"
    /\ epoch_end_calls < MaxEpochEndCalls
    /\ epoch_end_calls' = epoch_end_calls + 1
    /\ UNCHANGED << met_state, met_objective, executions_per_trial,
                    reported_step, trial_status, builds, trainings,
                    histories, oracle_updates >>
    /\ UNCHANGED << htVars, instVars, orVars, rsVars,
                    rrVars, irVars, trVars, tuVars >>

\* MultipleExecutionsTuner.run_trial(trial)
RunTrial(t) ==
    LET out == RunTrialOutcome(executions_per_trial) IN
    /\ met_state = "ready"
    /\ trial_status[t] = "pending"
    /\ trial_status' = [trial_status EXCEPT ![t] = out.status]
    /\ builds' = [builds EXCEPT ![t] = out.builds]
    /\ trainings' = [trainings EXCEPT ![t] = out.trainings]
    /\ histories' = [histories EXCEPT ![t] = out.histories]
    /\ oracle_updates' = [oracle_updates EXCEPT ![t] = out.updates]
    /\ UNCHANGED << met_state, met_objective, executions_per_trial,
                    reported_step, epoch_end_calls >>
    /\ UNCHANGED << htVars, instVars, orVars, rsVars,
                    rrVars, irVars, trVars, tuVars >>

METNext ==
    \/ \E objective \in ObjectiveKinds,
          n_executions \in 1 .. MaxExecutionsPerTrial :
          Construct(objective, n_executions)
    \/ OnEpochEnd
    \/ \E t \in Trials : RunTrial(t)

-----------------------------------------------------------------------------
(* HyperTuner: the key metrics and the best-so-far registry *)

\* sys.maxsize, the initial best of a `min' metric.  Metric values are only
\* compared with each other, so the model keeps their order, not their size
SysMaxsize == MaxMetric

\* the initial best of a `max' metric
InitialMax == -1

\* the values a metric can take: from below InitialMax to above sys.maxsize
\* (a float metric can be larger than sys.maxsize)
Values == (InitialMax - 1) .. (SysMaxsize + 1)

\* the key metrics used when no `metrics' argument is given
DefaultKeyMetrics ==
    << [name |-> "loss", direction |-> "min"],
       [name |-> "val_loss", direction |-> "min"],
       [name |-> "acc", direction |-> "max"],
       [name |-> "val_acc", direction |-> "max"] >>

\* the entries a `metrics' argument may hold: (name, direction) tuples, some
\* with a direction that is neither min nor max, an entry that is no tuple,
\* and a tuple of the name alone, ('loss',), which has no element 1
UserMetricEntries ==
    [is_tuple : { TRUE }, name : { "loss", "acc" },
     direction : { "min", "max", "avg" }]
      \cup { [is_tuple |-> FALSE, name |-> "loss", direction |-> "none"] }
      \cup { [is_tuple |-> TRUE, name |-> "loss", direction |-> "missing"] }

\* `tm[self.METRIC_DIRECTION]' on a tuple without element 1: IndexError
RaisesIndexError(tm) == tm.is_tuple /\ tm.direction = "missing"

\* the loop over user_metrics raises at the first tuple that is too short;
\* the entries before it are kept or skipped, none of them ends the loop
ConstructorRaises(user_metrics) ==
    \E i \in DOMAIN user_metrics : RaisesIndexError(user_metrics[i])

\* `isinstance(tm, tuple)' and `tm[METRIC_DIRECTION] in ['min', 'max']'
WellFormed(tm) == tm.is_tuple /\ tm.direction \in { "min", "max" }

\* a metric name is declared with one direction
OneDirectionPerName(user_metrics) ==
    \A i, j \in DOMAIN user_metrics :
        (/\ WellFormed(user_metrics[i])
         /\ WellFormed(user_metrics[j])
         /\ user_metrics[i].name = user_metrics[j].name)
          => user_metrics[i].direction = user_metrics[j].direction

\* the `metrics' arguments explored; the empty list stands for no argument
UserMetricLists ==
    { user_metrics \in UNION { [1 .. n -> UserMetricEntries] :
                                 n \in 0 .. MaxUserMetrics } :
        OneDirectionPerName(user_metrics) }

\* HyperTuner.__init__: self.key_metrics
KeyMetricsOf(user_metrics) ==
    IF Len(user_metrics) > 0
      THEN LET kept == SelectSeq(user_metrics, WellFormed) IN
           [i \in 1 .. Len(kept) |->
               [name |-> kept[i].name, direction |-> kept[i].direction]]
      ELSE DefaultKeyMetrics

\* the names of a list of key metrics
KeyMetricNames(kms) == { kms[i].name : i \in DOMAIN kms }

\* HyperTuner.__init__: self.stats, one assignment per key metric in order
InitialStats(kms) ==
    [n \in KeyMetricNames(kms) |->
        LET last == CHOOSE i \in DOMAIN kms :
                        /\ kms[i].name = n
                        /\ \A j \in DOMAIN kms : j > i => kms[j].name # n
        IN  IF kms[last].direction = "min" THEN SysMaxsize ELSE InitialMax]

\* the `results' instance.record_results may hand back: a value for some of
\* the key metrics
ResultsDicts(kms) ==
    UNION { [reported -> Values] : reported \in SUBSET KeyMetricNames(kms) }

\* faulty variant: the last value is kept instead of the best
Best_Last(direction, current_best, res_val) == res_val

\* min(current_best, res_val) or max(current_best, res_val)
Best(direction, current_best, res_val) ==
    IF direction = "min"
      THEN (IF res_val < current_best THEN res_val ELSE current_best)
      ELSE (IF res_val > current_best THEN res_val ELSE current_best)

\* the loop of HyperTuner.record_results from key metric i on; `bound' tells
\* whether the locals best and res_val have been assigned.  The report line
\* reads them for every key metric, reported or not
RECURSIVE ReportLoop(_, _, _, _, _)
ReportLoop(kms, i, st, bound, results) ==
    IF i > Len(kms)
      THEN [stats |-> st, raised |-> FALSE]
      ELSE LET km == kms[i]
               reported == km.name \in DOMAIN results
               st2 == IF reported
                        THEN [st EXCEPT ![km.name] =
                                 Best(km.direction, @, results[km.name])]
                        ELSE st
           IN  IF reported \/ bound
                 THEN ReportLoop(kms, i + 1, st2, TRUE, results)
                 ELSE [stats |-> st2, raised |-> TRUE]   \* UnboundLocalError

\* the direction the key metric named n is declared with
DirectionOf(kms, n) ==
    kms[CHOOSE i \in DOMAIN kms : kms[i].name = n].direction

\* the minimum (direction min) or maximum (direction max) of a set of values
BestOf(direction, values) ==
    CHOOSE v \in values :
        \A w \in values : IF direction = "min" THEN v <= w ELSE v >= w

\* the record of the values stats was updated with: for every metric the
\* call reported, the best of what was recorded before and the new value;
\* it is the empty set until a value of the metric has been recorded
ObservedAfter(kms, seen, results) ==
    [n \in DOMAIN seen |->
        IF n \in DOMAIN results
          THEN { BestOf(DirectionOf(kms, n), seen[n] \cup { results[n] }) }
          ELSE seen[n]]

\* HyperTuner.__init__, the metrics part
RRInit ==
    \E user_metrics \in UserMetricLists :
        /\ init_raised = ConstructorRaises(user_metrics)
        /\ key_metrics = IF init_raised THEN << >>
                                        ELSE KeyMetricsOf(user_metrics)
        /\ stats = InitialStats(key_metrics)
        /\ rr_raised = FALSE
        /\ rr_observed = [n \in KeyMetricNames(key_metrics) |-> { }]

\* a HyperTuner whose registry is left alone
RROff ==
    /\ key_metrics = << >>
    /\ stats = << >>
    /\ rr_raised = FALSE
    /\ rr_observed = << >>
    /\ init_raised = FALSE

\* HyperTuner.record_results, `results' being what the instance handed back
RecordResults(results) ==
    LET out == ReportLoop(key_metrics, 1, stats, FALSE, results) IN
    /\ ~ init_raised
    /\ stats' = out.stats
    /\ rr_raised' = out.raised
    /\ rr_observed' = IF out.raised
                        THEN rr_observed
                        ELSE ObservedAfter(key_metrics, rr_observed, results)
    /\ UNCHANGED << key_metrics, init_raised >>
    /\ UNCHANGED << htVars, instVars, orVars, rsVars, metVars,
                    irVars, trVars, tuVars >>

RRNext == \E results \in ResultsDicts(key_metrics) : RecordResults(results)

-----------------------------------------------------------------------------
(* Instance.record_results *)

\* the values of the metric the executions report, enough of them to tell
\* minimum, median, mean and maximum apart
ExecutionValues == { 0, 1 }

\* execution.metrics of one execution: either the metric "loss" with its
\* smallest and largest value over the epochs, or no metric at all
ExecutionMetrics ==
    { [reported \in { "loss" } |-> [min |-> pair[1], max |-> pair[2]]] :
        pair \in { p \in ExecutionValues \X ExecutionValues : p[1] <= p[2] } }
      \cup { << >> }

\* the key metrics an instance is given: none, the default ones, or one
\* declared by the user
InstKeyMetricLists ==
    { << >>, DefaultKeyMetrics }
      \cup { << [name |-> n, direction |-> d] >> :
                n \in { "loss", "acc" }, d \in { "min", "max" } }

\* exec_metrics[metric][direction]: the value of every execution that
\* reported the metric, in the order of the executions
ExecData(execs, metric, direction) ==
    LET having == SelectSeq(execs, LAMBDA e : metric \in DOMAIN e.metrics) IN
    [i \in 1 .. Len(having) |-> having[i].metrics[metric][direction]]

\* exec_metrics.keys(): the metrics some execution reported
ReportedMetrics(execs) == UNION { DOMAIN execs[i].metrics : i \in DOMAIN execs }

\* faulty variant: the smallest value is published instead of the median
Median2_Min(data) ==
    LET sorted == SortSeq(data, LAMBDA a, b : a < b) IN 2 * sorted[1]

\* np.median(data), kept as twice its value so that the mean of the two
\* middle values of an even number of values stays an integer
Median2(data) ==
    LET sorted == SortSeq(data, LAMBDA a, b : a < b)
        n == Len(sorted)
    IN  IF n % 2 = 1
          THEN 2 * sorted[(n + 1) \div 2]
          ELSE sorted[n \div 2] + sorted[(n \div 2) + 1]

\* results['key_metrics'] after the loop over self.key_metrics
KeyMetricResults(execs, kms) ==
    [n \in KeyMetricNames(kms) \cap ReportedMetrics(execs) |->
        LET last == CHOOSE i \in DOMAIN kms :
                        /\ kms[i].name = n
                        /\ \A j \in DOMAIN kms : j > i => kms[j].name # n
        IN  Median2(ExecData(execs, n, kms[last].direction))]

\* the keraslyzer.cloud_save calls of one record_results, in order: two for
\* every execution when models are saved, then one for the results document
MirrorCalls(execs, save_models) ==
    LET per_execution ==
          IF save_models
            THEN [k \in 1 .. 2 * Len(execs) |->
                    [category |-> IF k % 2 = 1 THEN "config" ELSE "weights",
                     execution |-> (k + 1) \div 2]]
            ELSE << >>
    IN  Append(per_execution,
               [category |-> "instance-results", execution |-> 0])

\* faulty variant: the config and the weights are written whatever
\* save_models is
LocalWrites_AlwaysSaved(execs, save_models, failing) ==
    LET calls == MirrorCalls(execs, TRUE)
        reached == IF failing = 0 THEN Len(calls) ELSE failing
    IN  { calls[k] : k \in 1 .. reached }

\* the local artifacts written when the mirror call number `failing' raises
\* (0: none raises): every local write precedes its own mirror call, and the
\* weights of an execution are written after the config has been mirrored
LocalWrites(execs, save_models, failing) ==
    LET calls == MirrorCalls(execs, save_models)
        reached == IF failing = 0 THEN Len(calls) ELSE failing
    IN  { calls[k] : k \in 1 .. reached }

\* Instance.record_results(save_models)
InstanceRecordResults(execs, kms, save_models, failing) ==
    [written |-> LocalWrites(execs, save_models, failing),
     raised |-> failing # 0,
     key_metrics |-> KeyMetricResults(execs, kms)]

\* Instance.__init__
IRInit ==
    /\ inst_key_metrics \in InstKeyMetricLists
    /\ inst_executions = << >>
    /\ inst_results = << >>
    /\ ir_calls = 0
    /\ ir_written = { }
    /\ ir_raised = FALSE
    /\ ir_args = [save_models |-> FALSE, failing |-> 0]

\* an Instance whose results are never recorded
IROff ==
    /\ inst_key_metrics = << >>
    /\ inst_executions = << >>
    /\ inst_results = << >>
    /\ ir_calls = 0
    /\ ir_written = { }
    /\ ir_raised = FALSE
    /\ ir_args = [save_models |-> FALSE, failing |-> 0]

\* Instance.fit has trained one more execution, which reported `reported'
AddExecution(reported) ==
    /\ Len(inst_executions) < MaxRecExecutions
    /\ inst_executions' = Append(inst_executions, [metrics |-> reported])
    /\ UNCHANGED << inst_key_metrics, inst_results, ir_calls, ir_written,
                    ir_raised, ir_args >>
    /\ UNCHANGED << htVars, instVars, orVars, rsVars, metVars,
                    rrVars, trVars, tuVars >>

\* a call of Instance.record_results(save_models) in which the mirror call
\* number `failing' raises
RecordInstanceResults(save_models, failing) ==
    LET out == InstanceRecordResults(inst_executions, inst_key_metrics,
                                     save_models, failing) IN
    /\ ir_calls < MaxRecordCalls
    /\ failing <= Len(MirrorCalls(inst_executions, save_models))
    /\ ir_calls' = ir_calls + 1
    /\ ir_written' = out.written
    /\ ir_raised' = out.raised
    /\ inst_results' = IF out.raised THEN inst_results ELSE out.key_metrics
    /\ ir_args' = [save_models |-> save_models, failing |-> failing]
    /\ UNCHANGED << inst_key_metrics, inst_executions >>
    /\ UNCHANGED << htVars, instVars, orVars, rsVars, metVars,
                    rrVars, trVars, tuVars >>

IRNext ==
    \/ \E reported \in ExecutionMetrics : AddExecution(reported)
    \/ \E save_models \in BOOLEAN, failing \in 0 .. (2 * MaxRecExecutions + 1) :
          RecordInstanceResults(save_models, failing)

-----------------------------------------------------------------------------
(* The Oracle's trial registry: create_trial, update_trial, get_best_trials *)

\* The sources hold no implementation of these operations; they are modelled
\* from their documented behaviour: the score of a trial is the best value
\* of the objective over the reported steps, and the best trials are the
\* completed ones by normalized score ascending, earlier creation first

\* the score of a trial no step has been reported for
NoScore == -1

\* the objective values a step can report
Scores == 0 .. MaxScore

\* create_trial: a new running trial without a score; reported is the set
\* of objective values its steps have reported
NewTrial ==
    [status |-> "RUNNING", score |-> NoScore, steps |-> 0, reported |-> { }]

\* the better of two objective values under the objective's direction
BetterScore(direction, a, b) ==
    IF direction = "min" THEN (IF a <= b THEN a ELSE b)
                         ELSE (IF a >= b THEN a ELSE b)

\* faulty variant: the score is the objective value of the last step
UpdatedTrial_LastStep(trial, direction, value) ==
    [trial EXCEPT
        !.score = value,
        !.steps = @ + 1,
        !.reported = @ \cup { value }]

\* update_trial: the score is the best objective value over the steps
UpdatedTrial(trial, direction, value) ==
    [trial EXCEPT
        !.score = IF trial.score = NoScore
                    THEN value
                    ELSE BetterScore(direction, trial.score, value),
        !.steps = @ + 1,
        !.reported = @ \cup { value }]

\* the direction-normalized score: lower is better
Normalized(direction, score) == IF direction = "min" THEN score ELSE 0 - score

\* faulty variant: the completed trials are returned in creation order
GetBestTrials_CreationOrder(all_trials, direction, n) ==
    LET completed == { t \in DOMAIN all_trials :
                          all_trials[t].status = "COMPLETED" }
        ordered == SortSeq([k \in 1 .. Cardinality(completed) |->
                              CHOOSE t \in completed :
                                Cardinality({ u \in completed : u < t }) = k - 1],
                           LAMBDA a, b : a < b)
    IN  SubSeq(ordered, 1, IF n < Len(ordered) THEN n ELSE Len(ordered))

\* get_best_trials(n): the first n completed trials by normalized score
\* ascending, ties broken by earlier creation
GetBestTrials(all_trials, direction, n) ==
    LET completed == { t \in DOMAIN all_trials :
                          all_trials[t].status = "COMPLETED" }
        listed == [k \in 1 .. Cardinality(completed) |->
                     CHOOSE t \in completed :
                       Cardinality({ u \in completed : u < t }) = k - 1]
        Before(a, b) ==
            LET na == Normalized(direction, all_trials[a].score)
                nb == Normalized(direction, all_trials[b].score)
            IN  na < nb \/ (na = nb /\ a < b)
        ordered == SortSeq(listed, Before)
    IN  SubSeq(ordered, 1, IF n < Len(ordered) THEN n ELSE Len(ordered))

\* the oracle after construction
TRInit ==
    /\ objective_direction \in { "min", "max" }
    /\ oracle_trials = << >>

\* an oracle that creates no trial
TROff ==
    /\ objective_direction = "min"
    /\ oracle_trials = << >>

\* create_trial
CreateTrial ==
    /\ Len(oracle_trials) < MaxOracleTrials
    /\ oracle_trials' = Append(oracle_trials, NewTrial)
    /\ UNCHANGED objective_direction
    /\ UNCHANGED << htVars, instVars, orVars, rsVars, metVars,
                    rrVars, irVars, tuVars >>

\* update_trial(t, {objective: value}, step)
UpdateTrial(t, value) ==
    /\ oracle_trials[t].status = "RUNNING"
    /\ oracle_trials[t].steps < MaxSteps
    /\ oracle_trials' =
          [oracle_trials EXCEPT
              ![t] = UpdatedTrial(@, objective_direction, value)]
    /\ UNCHANGED objective_direction
    /\ UNCHANGED << htVars, instVars, orVars, rsVars, metVars,
                    rrVars, irVars, tuVars >>

\* the trial's training is over: it is completed with the score it has
EndTrial(t) ==
    /\ oracle_trials[t].status = "RUNNING"
    /\ oracle_trials[t].score # NoScore
    /\ oracle_trials' = [oracle_trials EXCEPT ![t].status = "COMPLETED"]
    /\ UNCHANGED objective_direction
    /\ UNCHANGED << htVars, instVars, orVars, rsVars, metVars,
                    rrVars, irVars, tuVars >>

TRNext ==
    \/ CreateTrial
    \/ \E t \in DOMAIN oracle_trials, value \in Scores : UpdateTrial(t, value)
    \/ \E t \in DOMAIN oracle_trials : EndTrial(t)

-----------------------------------------------------------------------------
(* Tuner.search: oversized models and checkpoint retention *)

\* The sources hold no implementation of the base Tuner (search, the model
\* size limit, _get_checkpoint_fname, the removal of checkpoints); the loop
\* is modelled from its documented behaviour: ask the oracle for a trial,
\* build the model, discard an oversized model and retry up to a bound on
\* consecutive oversized models, abort when the bound is exceeded, else
\* train with checkpoint-on-improvement, then ask again

\* _get_checkpoint_fname(trial, step): the name of a checkpoint is
\* determined by the trial and the step
GetCheckpointFname(trial, step) == [trial |-> trial, step |-> step]

\* faulty variant: one more oversized model is tolerated than the bound
OversizedOutcome_OffByOne(streak, bound) ==
    IF streak > bound + 1 THEN "fatal" ELSE "build"

\* where the loop goes after an oversized model, given the number of
\* consecutive oversized models including it: RuntimeError('Too many
\* consecutive oversized models') once the bound is exceeded, else another
\* configuration is built
OversizedOutcome(streak, bound) ==
    IF streak > bound THEN "fatal" ELSE "build"

\* whether the monitored value of an epoch improves on the best so far
Improves(direction, best, value) ==
    \/ best = NoScore
    \/ (value # best /\ BetterScore(direction, best, value) = value)

\* faulty variant: a new checkpoint is written, the old ones are kept
CheckpointsAfter_KeepAll(files, trial, step, improved) ==
    IF improved THEN files \cup { GetCheckpointFname(trial, step) } ELSE files

\* the checkpoints after an epoch: on improvement the checkpoint of the step
\* is written and the checkpoints of the earlier steps of the trial are
\* removed
CheckpointsAfter(files, trial, step, improved) ==
    IF improved
      THEN { f \in files : f.trial # trial }
              \cup { GetCheckpointFname(trial, step) }
      ELSE files

\* the tuner after construction
TUInit ==
    /\ tu_pc = "ask"
    /\ tu_direction \in { "min", "max" }
    /\ tu_max_oversized \in 0 .. MaxOversizedBound
    /\ tu_trials_left \in 0 .. MaxSearchTrials
    /\ tu_trial = 0
    /\ tu_streak = 0
    /\ tu_last_build = "none"
    /\ tu_trained = { }
    /\ tu_history = << >>
    /\ tu_best = NoScore
    /\ tu_files = { }

\* a tuner that never searches
TUOff ==
    /\ tu_pc = "terminated"
    /\ tu_direction = "min"
    /\ tu_max_oversized = 0
    /\ tu_trials_left = 0
    /\ tu_trial = 0
    /\ tu_streak = 0
    /\ tu_last_build = "none"
    /\ tu_trained = { }
    /\ tu_history = << >>
    /\ tu_best = NoScore
    /\ tu_files = { }

\* the oracle hands out a trial
AskTrial ==
    /\ tu_pc = "ask"
    /\ tu_trials_left > 0
    /\ tu_pc' = "build"
    /\ tu_trials_left' = tu_trials_left - 1
    /\ tu_trial' = tu_trial + 1
    /\ tu_history' = << >>
    /\ tu_best' = NoScore
    /\ UNCHANGED << tu_direction, tu_max_oversized, tu_streak, tu_last_build,
                    tu_trained, tu_files >>
    /\ UNCHANGED << htVars, instVars, orVars, rsVars, metVars,
                    rrVars, irVars, trVars >>

\* the oracle has no trial left: the search ends normally
NoTrialLeft ==
    /\ tu_pc = "ask"
    /\ tu_trials_left = 0
    /\ tu_pc' = "terminated"
    /\ UNCHANGED << tu_direction, tu_max_oversized, tu_trials_left, tu_trial,
                    tu_streak, tu_last_build, tu_trained, tu_history, tu_best,
                    tu_files >>
    /\ UNCHANGED << htVars, instVars, orVars, rsVars, metVars,
                    rrVars, irVars, trVars >>

\* the model built is within the size limit: it goes into training
BuildFits ==
    /\ tu_pc = "build"
    /\ tu_pc' = "train"
    /\ tu_streak' = 0
    /\ tu_last_build' = "fits"
    /\ tu_trained' = tu_trained \cup { tu_trial }
    /\ UNCHANGED << tu_direction, tu_max_oversized, tu_trials_left, tu_trial,
                    tu_history, tu_best, tu_files >>
    /\ UNCHANGED << htVars, instVars, orVars, rsVars, metVars,
                    rrVars, irVars, trVars >>

\* the model built is oversized: it is discarded
BuildOversized ==
    /\ tu_pc = "build"
    /\ tu_pc' = OversizedOutcome(tu_streak + 1, tu_max_oversized)
    /\ tu_streak' = tu_streak + 1
    /\ tu_last_build' = "oversized"
    /\ UNCHANGED << tu_direction, tu_max_oversized, tu_trials_left, tu_trial,
                    tu_trained, tu_history, tu_best, tu_files >>
    /\ UNCHANGED << htVars, instVars, orVars, rsVars, metVars,
                    rrVars, irVars, trVars >>

\* one epoch of training ends with the monitored value `value'
TrainEpoch(value) ==
    /\ tu_pc = "train"
    /\ Len(tu_history) < MaxTrainEpochs
    /\ LET improved == Improves(tu_direction, tu_best, value) IN
         /\ tu_files' = CheckpointsAfter(tu_files, tu_trial, Len(tu_history),
                                         improved)
         /\ tu_best' = IF improved THEN value ELSE tu_best
    /\ tu_history' = Append(tu_history, value)
    /\ UNCHANGED << tu_pc, tu_direction, tu_max_oversized, tu_trials_left,
                    tu_trial, tu_streak, tu_last_build, tu_trained >>
    /\ UNCHANGED << htVars, instVars, orVars, rsVars, metVars,
                    rrVars, irVars, trVars >>

\* the last epoch is over: the trial ends and the next one is asked for
TrialDone ==
    /\ tu_pc = "train"
    /\ Len(tu_history) = MaxTrainEpochs
    /\ tu_pc' = "ask"
    /\ UNCHANGED << tu_direction, tu_max_oversized, tu_trials_left, tu_trial,
                    tu_streak, tu_last_build, tu_trained, tu_history, tu_best,
                    tu_files >>
    /\ UNCHANGED << htVars, instVars, orVars, rsVars, metVars,
                    rrVars, irVars, trVars >>

TUNext ==
    \/ AskTrial
    \/ NoTrialLeft
    \/ BuildFits
    \/ BuildOversized
    \/ \E value \in Scores : TrainEpoch(value)
    \/ TrialDone

-----------------------------------------------------------------------------
(* Specifications *)

\* an Instance nothing is done with
InstOff == InstInit

\* an Oracle nothing is done with
OracleOff == OracleInit

\* no MultipleExecutionsTuner
METOff == METInit

InitHT ==
    HTInit /\ InstOff /\ OracleOff /\ RSOff /\ METOff
      /\ RROff /\ IROff /\ TROff /\ TUOff

InitInst ==
    HTOff /\ InstInit /\ OracleOff /\ RSOff /\ METOff
      /\ RROff /\ IROff /\ TROff /\ TUOff

InitOracle ==
    HTOff /\ InstOff /\ OracleInit /\ RSOff /\ METOff
      /\ RROff /\ IROff /\ TROff /\ TUOff

InitRS ==
    HTOff /\ InstOff /\ OracleOff /\ RSInit /\ METOff
      /\ RROff /\ IROff /\ TROff /\ TUOff

InitMET ==
    HTOff /\ InstOff /\ OracleOff /\ RSOff /\ METInit
      /\ RROff /\ IROff /\ TROff /\ TUOff

\* HyperTuner.get_random_instance
SpecHT == InitHT /\ [][HTNext]_vars

\* Instance.fit
SpecInst == InitInst /\ [][InstNext]_vars

\* Oracle.update_space
SpecOracle == InitOracle /\ [][OracleNext]_vars

\* RandomSearch.tune
SpecRS == InitRS /\ [][RSNext]_vars

\* MultipleExecutionsTuner
SpecMET == InitMET /\ [][METNext]_vars

InitRR ==
    HTOff /\ InstOff /\ OracleOff /\ RSOff /\ METOff
      /\ RRInit /\ IROff /\ TROff /\ TUOff

\* HyperTuner.record_results
SpecRR == InitRR /\ [][RRNext]_vars

InitIR ==
    HTOff /\ InstOff /\ OracleOff /\ RSOff /\ METOff
      /\ RROff /\ IRInit /\ TROff /\ TUOff

\* Instance.record_results
SpecIR == InitIR /\ [][IRNext]_vars

InitTR ==
    HTOff /\ InstOff /\ OracleOff /\ RSOff /\ METOff
      /\ RROff /\ IROff /\ TRInit /\ TUOff

\* the Oracle's trial registry
SpecTR == InitTR /\ [][TRNext]_vars

InitTU ==
    HTOff /\ InstOff /\ OracleOff /\ RSOff /\ METOff
      /\ RROff /\ IROff /\ TROff /\ TUInit

\* Tuner.search
SpecTU == InitTU /\ [][TUNext]_vars

InitQuery ==
    HTOff /\ InstOff /\ OracleFilled /\ RSOff /\ METOff
      /\ RROff /\ IROff /\ TROff /\ TUOff

\* Oracle._raise_if_unknown_hyperparameter
SpecQuery == InitQuery /\ [][QueryNext]_vars

-----------------------------------------------------------------------------
(* Properties of HyperTuner.get_random_instance *)

\* the ids returned so far are pairwise distinct
NoTwoReturnedShareId ==
    \A i, j \in 1 .. Len(returned) : i # j => returned[i] # returned[j]

\* a step in which get_random_instance returns an instance
ReturnsInstance == gri_pc = "loop" /\ gri_pc' = "idle" /\ gri_ret' # NoIdx

\* C1: every instance get_random_instance returns has an id that was no key
\* of `instances' before the call (nor when it was built), is registered
\* under that id, and leaves every registered instance as it was; no two
\* returned instances share an id.
C1_FreshIdRegistered ==
    /\ [] NoTwoReturnedShareId
    /\ [][ReturnsInstance =>
             /\ gri_ret' \notin DOMAIN gri_pre.instances
             /\ gri_ret' \notin DOMAIN instances
             /\ gri_ret' \in DOMAIN instances'
             /\ instances'[gri_ret'].idx = gri_ret'
             /\ ComputeModelId(instances'[gri_ret'].model) = gri_ret'
             /\ \A j \in DOMAIN instances : instances'[j] = instances[j]
          ]_vars

\* C1 witness: a second instance was returned while another was registered
C1_Witness ==
    /\ gri_pc = "idle"
    /\ Len(returned) = 2
    /\ gri_ret = returned[2]
    /\ collisions > 0

\* C2: a get_random_instance call ends after a bounded number of attempts:
\* the fail-streak limit, the only retry bound the tuner has, is never
\* exceeded by the attempts of one call.
C2_BoundedResampling ==
    gri_pc = "loop" => fail_streak <= max_fail_streak

\* a step in which model_fn fails and the invalid-model count reaches the limit
FailureReachesLimit ==
    /\ gri_pc = "loop"
    /\ invalid_models' = invalid_models + 1
    /\ invalid_models' >= max_fail_streak

\* C3: when model_fn fails and the invalid-model count reaches
\* max_fail_streak, the call returns None and `instances' and
\* `current_instance_idx' are what they were before the call.
C3_GiveUpRegistersNothing ==
    [][FailureReachesLimit =>
         /\ gri_pc' = "idle"
         /\ gri_ret' = NoIdx
         /\ instances' = gri_pre.instances
         /\ current_instance_idx' = gri_pre.current_instance_idx
      ]_vars

\* C3 witness: a call gave up after an earlier call had registered an instance
C3_Witness ==
    /\ gri_pc = "idle"
    /\ gri_calls >= 2
    /\ gri_ret = NoIdx
    /\ invalid_models >= max_fail_streak
    /\ Len(returned) >= 1
    /\ current_instance_idx # NoIdx

-----------------------------------------------------------------------------
(* Properties of Instance.fit *)

\* a step that is a call of Instance.fit
FitStep == fit_calls' = fit_calls + 1

\* the step resumes: resume_execution is true and an execution exists
ResumeStep == FitStep /\ last_fit'.resume_execution /\ Len(executions) > 0

\* the executions other than the i-th are what they were
OthersUntouched(i) ==
    \A j \in 1 .. Len(executions) : j # i => executions'[j] = executions[j]

\* C5: fit with resume_execution true and a prior execution trains the last
\* execution and leaves the number of executions unchanged; any other fit
\* appends exactly one execution and trains that one, once.
C5_ResumeOrAppend ==
    [][FitStep =>
         IF last_fit'.resume_execution /\ Len(executions) > 0
           THEN /\ Len(executions') = Len(executions)
                /\ executions'[Len(executions)].fits
                     = executions[Len(executions)].fits + 1
                /\ OthersUntouched(Len(executions))
           ELSE /\ Len(executions') = Len(executions) + 1
                /\ executions'[Len(executions')].fits = 1
                /\ OthersUntouched(Len(executions'))
      ]_vars

\* C5 witness: a resumed fit after a fit that created an execution, and a
\* second execution created by a fit without resume
C5_Witness ==
    /\ Len(executions) = 2
    /\ executions[1].fits = 2
    /\ executions[2].fits = 1
    /\ ~ last_fit.resume_execution

\* C6: a resumed fit starts the last execution at the epoch count it had
\* reached, and no fit ever lowers the epoch count of an execution.
C6_ResumeKeepsEpochCounter ==
    /\ [][ResumeStep =>
            executions'[Len(executions)].initial_epoch
              = executions[Len(executions)].num_epochs]_vars
    /\ [][\A i \in 1 .. Len(executions) :
            executions'[i].num_epochs >= executions[i].num_epochs]_vars

\* C6 witness: an execution that ran N > 0 epochs was resumed with a smaller
\* `epochs' option and with a larger one
C6_Witness ==
    /\ Len(executions) = 1
    /\ executions[1].fits = 3
    /\ executions[1].initial_epoch = 2
    /\ executions[1].num_epochs = 3
    /\ last_fit.resume_execution

-----------------------------------------------------------------------------
(* Properties of RandomSearch.tune *)

\* C4: tune starts a new trial only while the remaining budget is greater
\* than 0.
C4_TrialOnlyWithBudgetLeft ==
    [][Len(trials') > Len(trials) => remaining_budget > 0]_vars

\* the fits made on an instance, and the epochs they trained, over its
\* executions
RECURSIVE TotalFits(_)
TotalFits(execs) ==
    IF execs = << >> THEN 0 ELSE execs[1].fits + TotalFits(Tail(execs))

RECURSIVE TotalEpochs(_)
TotalEpochs(execs) ==
    IF execs = << >> THEN 0 ELSE execs[1].num_epochs + TotalEpochs(Tail(execs))

\* C24: tune is strictly sequential per trial: every instance obtained from
\* new_instance is fitted exactly num_executions times, max_epochs epochs
\* each, within its own pass of the loop, and once new_instance has
\* returned no instance no further fit is performed
C24_EachInstanceFittedInTurn ==
    [][ /\ trials' # trials =>
              /\ tune_pc = "loop"
              /\ Len(trials') = Len(trials) + 1
              /\ SubSeq(trials', 1, Len(trials)) = trials
              /\ TotalFits(trials'[Len(trials')]) = num_executions
              /\ TotalEpochs(trials'[Len(trials')])
                    = num_executions * max_epochs
        /\ tune_pc = "done" => trials' = trials ]_vars

-----------------------------------------------------------------------------
(* Properties of Oracle.update_space *)

\* C7: no two hyperparameters of the tracked space have the same name.
C7_NamesUnique ==
    \A i, j \in 1 .. Len(space) : i # j => space[i].name # space[j].name

-----------------------------------------------------------------------------
(* Properties of MultipleExecutionsTuner *)

\* run_trial(t) has been called and has ended
Ended(t) == trial_status[t] # "pending"

\* C8: run_trial builds and trains a model exactly executions_per_trial
\* times for the trial.
C8_TrainsEachExecution ==
    \A t \in Trials :
        Ended(t) => /\ builds[t] = executions_per_trial
                    /\ trainings[t] = executions_per_trial

\* C9: run_trial reports to the Oracle exactly once, with the trial's id and
\* step 0, and on_epoch_end reports nothing.
C9_ReportsOnce ==
    \A t \in Trials :
        /\ Len(oracle_updates[t]) <= 1
        /\ Ended(t) => /\ Len(oracle_updates[t]) = 1
                       /\ oracle_updates[t][1].trial_id = t
                       /\ oracle_updates[t][1].step = 0

\* the metric names present in a list of training histories
MetricNames(hs) == UNION { DOMAIN hs[i] : i \in 1 .. Len(hs) }

\* the sum over the histories of a metric's final-epoch value
RECURSIVE FinalEpochSum(_, _)
FinalEpochSum(hs, metric) ==
    IF hs = << >>
      THEN 0
      ELSE LET epoch_values == Head(hs)[metric] IN
           epoch_values[Len(epoch_values)] + FinalEpochSum(Tail(hs), metric)

\* C10: the metrics run_trial reports are, for each metric name of the
\* training histories and no other, the mean over the executions of the
\* metric's final-epoch value.
C10_ReportsMeanOfFinalEpochs ==
    \A t \in Trials :
        Ended(t) =>
            /\ Len(oracle_updates[t]) >= 1
            /\ LET metrics == oracle_updates[t][Len(oracle_updates[t])].metrics
               IN  /\ DOMAIN metrics = MetricNames(histories[t])
                   /\ \A m \in DOMAIN metrics :
                        metrics[m] * Len(histories[t])
                          = FinalEpochSum(histories[t], m)


-----------------------------------------------------------------------------
(* Properties of the best-so-far registry *)

C25_BestIsObservedExtreme ==
    \A n \in DOMAIN stats :
        rr_observed[n] # { } => stats[n] \in rr_observed[n]

\* C26: record_results completes without raising for every subset of the
\* key metrics that the instance results hold, the first key metric or all
\* of them being absent included, and leaves the best-so-far value of an
\* absent metric unchanged
C26_AbsentMetricsTolerated ==
    /\ rr_raised = FALSE
    /\ \A results \in ResultsDicts(key_metrics) :
          LET out == ReportLoop(key_metrics, 1, stats, FALSE, results) IN
          /\ ~ out.raised
          /\ \A n \in KeyMetricNames(key_metrics) \ DOMAIN results :
                out.stats[n] = stats[n]

\* C27: the construction of a HyperTuner does not raise on malformed
\* entries of `metrics' but drops them: every entry of key_metrics has the
\* direction min or max, stats has exactly one entry per key-metric name,
\* and until a value is recorded for it the entry is sys.maxsize for a min
\* metric and -1 for a max metric
C27_KeyMetricsWellFormed ==
    /\ init_raised = FALSE
    /\ \A i \in DOMAIN key_metrics :
          key_metrics[i].direction \in { "min", "max" }
    /\ DOMAIN stats = KeyMetricNames(key_metrics)
    /\ \A n \in DOMAIN stats :
          rr_observed[n] = { } =>
             stats[n] = IF DirectionOf(key_metrics, n) = "min"
                          THEN SysMaxsize ELSE InitialMax

-----------------------------------------------------------------------------
(* Properties of Instance.record_results *)

\* the r-th smallest of the values vals[e], by counting
Ranked(vals, r) ==
    CHOOSE v \in { vals[e] : e \in DOMAIN vals } :
        /\ Cardinality({ e \in DOMAIN vals : vals[e] < v }) < r
        /\ r <= Cardinality({ e \in DOMAIN vals : vals[e] <= v })

\* twice the median of the values vals[e]: the middle value taken twice, or
\* the sum of the two middle values
MedianTwice(vals) ==
    LET n == Cardinality(DOMAIN vals) IN
    Ranked(vals, (n + 1) \div 2) + Ranked(vals, (n \div 2) + 1)

\* a step that is a record_results call which returns
RecordReturns == ir_calls' = ir_calls + 1 /\ ~ir_raised'

AllArtifacts(execs, save_models) ==
    { [category |-> "instance-results", execution |-> 0] }
      \cup (IF save_models
              THEN [category : { "config", "weights" },
                    execution : DOMAIN execs]
              ELSE { })

\* C13: a record_results call in which a mirror call (cloud_save) fails
\* still writes every local artifact and still returns the results
C13_MirrorFailureSwallowed ==
    [][(ir_calls' = ir_calls + 1 /\ ir_args'.failing # 0) =>
          /\ ~ir_raised'
          /\ ir_written' = AllArtifacts(inst_executions,
                                        ir_args'.save_models)]_vars


-----------------------------------------------------------------------------
(* Properties of the failure limit, of collisions and of the model id *)

\* C14: get_random_instance gives up (returns None) only when
\* max_fail_streak model_fn failures have occurred since model_fn last
\* returned a model, in this call or an earlier one
C14_GivesUpOnlyAfterStreak ==
    (gri_pc = "idle" /\ gri_calls > 0 /\ gri_ret = NoIdx)
        => failures_since_build >= max_fail_streak

\* a loop iteration in which model_fn returned a model whose id is already
\* registered
CollisionStep ==
    /\ gri_pc = "loop"
    /\ fail_streak' = fail_streak + 1
    /\ invalid_models' = invalid_models
    /\ last_idx' \in DOMAIN instances

\* C15: on a collision the collision counter goes up by exactly one and the
\* operation returns to its caller with nothing new, the caller being left
\* to sample again
C15_CollisionReturnsToCaller ==
    [][CollisionStep =>
          /\ collisions' = collisions + 1
          /\ instances' = instances
          /\ gri_pc' = "idle"
          /\ gri_ret' = NoIdx]_vars

\* C15, amended: on a collision the collision counter goes up by exactly
\* one, nothing is registered or returned, and the operation itself samples
\* again: the call stays in its loop
C15_CollisionCountedAndResampled ==
    [][CollisionStep =>
          /\ collisions' = collisions + 1
          /\ instances' = instances
          /\ current_instance_idx' = current_instance_idx
          /\ returned' = returned
          /\ gri_ret' = gri_ret
          /\ gri_pc' = "loop"]_vars

\* a call that has just met a collision and is still in its loop
C15_Witness ==
    /\ gri_pc = "loop"
    /\ collisions > 0
    /\ last_idx \in DOMAIN instances
    /\ failures_since_build = 0
    /\ gri_pre.instances = instances

\* C16: the id is a function of the configuration alone: models with equal
\* configurations get the same id, so no configuration is ever registered
\* under two ids
C16_IdFunctionOfConfiguration ==
    \A i, j \in DOMAIN instances :
        instances[i].model.config = instances[j].model.config => i = j


-----------------------------------------------------------------------------
(* Properties of the construction of a MultipleExecutionsTuner *)

\* C17: construction with a list or tuple objective fails with ValueError
\* and leaves no tuner to use: no attribute is set, and no trial is run or
\* reported and no epoch end is handled with an objective taken out of the
\* collection
C17_CollectionObjectiveRejected ==
    met_objective \in { "list", "tuple" } =>
        /\ met_state = "ValueError"
        /\ executions_per_trial = 0
        /\ epoch_end_calls = 0
        /\ \A t \in Trials :
              /\ trial_status[t] = "pending"
              /\ oracle_updates[t] = << >>

\* a construction with a tuple objective has been attempted
C17_Witness == met_objective = "tuple" /\ met_state = "ValueError"


-----------------------------------------------------------------------------
(* Properties of the Oracle's space *)

\* C18: a query that names a parameter the space does not track fails with
\* the unknown-parameter error (a ValueError), a query whose names are all
\* tracked succeeds, and the tracked space is the same after either
C18_UnknownParameterRejected ==
    [][(queried' # queried \/ query_outcome' # query_outcome) =>
          /\ space' = space
          /\ query_outcome' =
                IF \E p \in queried' :
                      \A i \in DOMAIN space : space[i].name # p.name
                  THEN "ValueError"
                  ELSE "ok"]_vars

\* a query with a tracked and an untracked name has failed
C18_Witness ==
    /\ query_outcome = "ValueError"
    /\ \E p, q \in queried :
          /\ p.name \in RefNames(space)
          /\ q.name \notin RefNames(space)

OfCategory(artifacts, category) ==
    { a \in artifacts : a.category = category }

\* C28: a record_results call with save_models false that returns has
\* written no weights artifact and mirrored none, yet it has written the
\* instance-results document and stored the results it returns on the
\* instance; with save_models true it has written one config and one
\* weights artifact for every execution
C28_SaveModelsDecidesArtifacts ==
    [][RecordReturns =>
        LET save_models == ir_args'.save_models
            mirrored == MirrorCalls(inst_executions, save_models)
        IN  /\ [category |-> "instance-results", execution |-> 0]
                  \in ir_written'
            /\ inst_results' =
                  KeyMetricResults(inst_executions, inst_key_metrics)
            /\ IF save_models
                  THEN \A category \in { "config", "weights" } :
                         /\ \A e \in DOMAIN inst_executions :
                               Cardinality({ a \in OfCategory(ir_written',
                                                             category) :
                                               a.execution = e }) = 1
                         /\ Cardinality(OfCategory(ir_written', category))
                               = Len(inst_executions)
                  ELSE /\ OfCategory(ir_written', "weights") = { }
                       /\ \A k \in DOMAIN mirrored :
                             mirrored[k].category # "weights"]_vars

\* a call with save_models false has returned for two executions or more:
\* the results document is the only artifact and the results are stored
C28_Witness ==
    /\ ir_calls > 0
    /\ ~ir_raised
    /\ ~ir_args.save_models
    /\ Len(inst_executions) >= 2
    /\ ir_written = { [category |-> "instance-results", execution |-> 0] }
    /\ "loss" \in DOMAIN inst_results

-----------------------------------------------------------------------------
(* Properties of the Oracle's trial registry *)

\* the trials that are completed
CompletedTrials ==
    { t \in DOMAIN oracle_trials : oracle_trials[t].status = "COMPLETED" }

\* C20: after any sequence of create_trial and update_trial calls
\* get_best_trials(1) returns a completed trial whose score no completed
\* trial beats: the lowest score for a min objective, the highest for a max
\* objective (and nothing while no trial is completed)
C20_BestTrialIsBest ==
    LET best == GetBestTrials(oracle_trials, objective_direction, 1) IN
    IF CompletedTrials = { }
      THEN best = << >>
      ELSE /\ Len(best) = 1
           /\ best[1] \in CompletedTrials
           /\ \A u \in CompletedTrials :
                 IF objective_direction = "min"
                   THEN oracle_trials[best[1]].score <= oracle_trials[u].score
                   ELSE oracle_trials[best[1]].score >= oracle_trials[u].score

\* a min objective, two completed trials of which the one created later has
\* the lower score and is the one returned
C20_Witness ==
    /\ objective_direction = "min"
    /\ Len(oracle_trials) >= 2
    /\ { 1, 2 } \subseteq CompletedTrials
    /\ oracle_trials[2].score < oracle_trials[1].score
    /\ oracle_trials[2].steps = 2
    /\ GetBestTrials(oracle_trials, objective_direction, 1) = << 2 >>

\* C21: after any sequence of update_trial reports for a trial, the score
\* of the trial is the best objective value over all the reported steps in
\* the direction of the objective: the minimum for a min objective, the
\* maximum for a max objective
C21_ScoreIsBestReported ==
    \A t \in DOMAIN oracle_trials :
        LET trial == oracle_trials[t] IN
        trial.steps > 0 =>
            /\ trial.score \in trial.reported
            /\ \A v \in trial.reported :
                  IF objective_direction = "min" THEN trial.score <= v
                                                 ELSE trial.score >= v

\* a min objective and a trial whose three steps reported three different
\* values, the lowest of them not last: its score is that lowest value
C21_Witness ==
    /\ objective_direction = "min"
    /\ \E t \in DOMAIN oracle_trials :
          /\ oracle_trials[t].steps = 3
          /\ Cardinality(oracle_trials[t].reported) = 3
          /\ oracle_trials[t].score = 0


-----------------------------------------------------------------------------
(* Properties of Tuner.search *)

\* a step of the search in which the model built is found oversized
OversizedStep == tu_pc = "build" /\ tu_last_build' = "oversized"

\* C22: an oversized model is discarded without being trained and another
\* configuration is built; once the consecutive oversized models exceed the
\* bound the search aborts with the fatal error, and only then: an aborted
\* search neither continues nor ends normally
C22_OversizedDiscardedThenFatal ==
    [][ /\ OversizedStep =>
              /\ tu_trained' = tu_trained
              /\ tu_files' = tu_files
              /\ tu_history' = tu_history
              /\ tu_pc' = IF tu_streak + 1 > tu_max_oversized
                            THEN "fatal" ELSE "build"
        /\ tu_pc' = "fatal" =>
              /\ OversizedStep
              /\ tu_streak' > tu_max_oversized
        /\ tu_pc' = "train" /\ tu_pc = "build" => tu_last_build' = "fits"
        /\ tu_pc # "fatal" ]_vars

\* the search is aborted in its second trial, the first one having been
\* trained, after one oversized model was tolerated and the next was not
C22_Witness ==
    /\ tu_pc = "fatal"
    /\ tu_max_oversized = 1
    /\ tu_streak = 2
    /\ tu_trial = 2
    /\ tu_trained = { 1 }

\* the last step of the trial's history whose value improved on every
\* earlier one (step 0 always does)
RECURSIVE LastImprovingStep(_, _, _)
LastImprovingStep(direction, history, k) ==
    IF k = 0 \/ \A j \in 1 .. k :
                   /\ history[j] # history[k + 1]
                   /\ BetterScore(direction, history[j], history[k + 1])
                         = history[k + 1]
      THEN k
      ELSE LastImprovingStep(direction, history, k - 1)

=============================================================================
